---- MODULE Spec2Model ----
(***************************************************************************)
(* A model of ambari_agent/alerts/base_alert.py: the BaseAlert class, one  *)
(* instance of it, and the calls a scheduler can make on that instance.    *)
(*                                                                         *)
(* Python values are tagged records (PyStr, PyInt, PyList, None).  A       *)
(* Python string is a "text": a sequence of pieces; concatenation is \o.    *)
(* Configuration keys are texts of single characters (the regular          *)
(* expression of _find_lookup_property reads them character by character); *)
(* every other string is one piece, or a concatenation built by format().  *)
(* A Python dict is a function; its keys are its DOMAIN.                   *)
(***************************************************************************)
EXTENDS Integers, Sequences, FiniteSets, TLC

VARIABLES
  alert_meta,         \* self.alert_meta
  alert_source_meta,  \* self.alert_source_meta
  overridden,         \* whether the instance's class overrides _collect
  cluster,            \* self.cluster
  hostname,           \* self.hostname
  lookup_keys,        \* self._lookup_keys
  collector,          \* self.collector: Unset, or the result sink
  config_value_dict,  \* self.config_value_dict: NoAttr, or Attr(dict)
  sink_puts,          \* the result sink: how many put() calls it received
  sink_last,          \* the result sink: the newest put(), <<cluster, data>>
  last                \* the latest call on the instance and how it ended

vars == <<alert_meta, alert_source_meta, overridden, cluster, hostname,
          lookup_keys, collector, config_value_dict, sink_puts, sink_last, last>>

----------------------------------------------------------------------------
\* Bounds of the model.

MaxPuts == 2
MaxLookupKeys == 2
MaxInterval == 5

----------------------------------------------------------------------------
\* Python values.

PyStr(t) == [tag |-> "str", s |-> t, i |-> 0, l |-> <<>>]
PyInt(n) == [tag |-> "int", s |-> <<>>, i |-> n, l |-> <<>>]
PyList(x) == [tag |-> "list", s |-> <<>>, i |-> 0, l |-> x]
None == [tag |-> "none", s |-> <<>>, i |-> 0, l |-> <<>>]

EmptyDict == [x \in {} |-> None]

\* The collector attribute before set_helpers assigns it.
Unset == "unset"

\* The config_value_dict attribute: not assigned yet, or assigned a dict.
NoAttr == [set |-> FALSE, value |-> EmptyDict]
Attr(v) == [set |-> TRUE, value |-> v]

RESULT_OK == PyStr(<<"OK">>)
RESULT_WARNING == PyStr(<<"WARNING">>)
RESULT_CRITICAL == PyStr(<<"CRITICAL">>)
RESULT_UNKNOWN == PyStr(<<"UNKNOWN">>)

\* Exceptions: the class and str(e).
NoExc == [cls |-> "", str |-> <<>>]
Exc(c, t) == [cls |-> c, str |-> t]

\* str(KeyError(k)) is repr(k).
KeyError(k) == Exc("KeyError", <<"'">> \o k \o <<"'">>)


\* A handler that lets NotImplementedError through as well.
IsExceptionButNotImplemented(c) ==
  c \notin {"KeyboardInterrupt", "SystemExit", "NotImplementedError"}

\* The classes `except Exception` catches: KeyboardInterrupt and SystemExit derive
\* from BaseException only.
IsException(c) == c \notin {"KeyboardInterrupt", "SystemExit"}

----------------------------------------------------------------------------
\* str.lower(), piece by piece, on the words the model uses.

LowerPiece(p) ==
  CASE p = "OK" -> "ok"
    [] p = "Ok" -> "ok"
    [] p = "WARNING" -> "warning"
    [] p = "CRITICAL" -> "critical"
    [] p = "Critical" -> "critical"
    [] p = "UNKNOWN" -> "unknown"
    [] p = "BOGUS" -> "bogus"
    [] OTHER -> p

lower(t) == [k \in 1..Len(t) |-> LowerPiece(t[k])]

----------------------------------------------------------------------------
\* str.format(*args) on a template: a sequence of literal pieces and of
\* replacement fields {n}.  A field whose index no argument has raises IndexError.

Lit(p) == [lit |-> p, field |-> -1]
Field(n) == [lit |-> "", field |-> n]

RECURSIVE format(_, _)
format(template, args) ==
  IF template = <<>> THEN [exc |-> NoExc, text |-> <<>>]
  ELSE LET tok == Head(template)
           rest == format(Tail(template), args)
       IN IF tok.field >= 0 /\ tok.field >= Len(args)
            THEN [exc |-> Exc("IndexError", <<"tuple index out of range">>), text |-> <<>>]
          ELSE IF rest.exc # NoExc THEN rest
          ELSE [exc |-> NoExc,
                text |-> (IF tok.field >= 0 THEN args[tok.field + 1] ELSE <<tok.lit>>)
                          \o rest.text]

DefaultBaseText == <<Lit("Unknown "), Field(0)>>

----------------------------------------------------------------------------
\* The alert definitions an instance is constructed with.

DiskMeta(n) ==
  [k \in {"name", "label", "service", "componentName", "interval"} |->
     CASE k = "name" -> PyStr(<<"disk_check">>)
       [] k = "label" -> PyStr(<<"Disk Usage">>)
       [] k = "service" -> PyStr(<<"HDFS">>)
       [] k = "componentName" -> PyStr(<<"DATANODE">>)
       [] k = "interval" -> PyInt(n)]

PartialMeta ==
  [k \in {"name", "service"} |->
     IF k = "name" THEN PyStr(<<"port_check">>) ELSE PyStr(<<"YARN">>)]

DiskSource ==
  "reporting" :>
     (<<"ok">> :> ("text" :> <<Lit("Disk OK: "), Field(0), Lit("% used")>>)
      @@ <<"critical">> :> ("text" :> <<Lit("Disk CRITICAL: "), Field(0), Lit("% used")>>))

\* An entry without text, a template of two fields, and a key that is not lowercase.
OddSource ==
  "reporting" :>
     (<<"ok">> :> EmptyDict
      @@ <<"warning">> :> ("text" :> <<Field(1), Lit(" of "), Field(0)>>)
      @@ <<"CRITICAL">> :> ("text" :> <<Lit("never selected")>>)
      @@ <<"unknown">> :> ("text" :> <<Lit("State unknown")>>))

Intervals == (0 - MaxInterval)..MaxInterval

Instances ==
  {[meta |-> DiskMeta(n), source |-> DiskSource] : n \in Intervals}
  \cup {[meta |-> PartialMeta, source |-> OddSource],
        [meta |-> EmptyDict, source |-> EmptyDict]}

----------------------------------------------------------------------------
\* What a call of _collect() can do.

Raises(e) == [kind |-> "raise", exc |-> e, state |-> None, args |-> <<>>]
Returns(st, a) == [kind |-> "return", exc |-> NoExc, state |-> st, args |-> a]
NoHook == [kind |-> "none", exc |-> NoExc, state |-> None, args |-> <<>>]

\* BaseAlert._collect itself.
BaseCollect == Raises(Exc("NotImplementedError", <<>>))

HookStates ==
  {RESULT_OK, RESULT_WARNING, RESULT_CRITICAL, RESULT_UNKNOWN,
   PyStr(<<"Critical">>), PyStr(<<"BOGUS">>), None}

HookArgs == {<<>>, <<<<"92">>>>, <<<<"92">>, <<"GB">>>>}

HookOutcomes ==
  {Returns(st, a) : st \in HookStates, a \in HookArgs}
  \cup {Raises(Exc("Exception", <<"connection refused">>)),
        Raises(Exc("IOError", <<"[Errno 2] ", "No such file">>)),
        Raises(Exc("KeyboardInterrupt", <<>>))}

----------------------------------------------------------------------------
\* BaseAlert.collect


\* A lookup that defaults to the empty string instead of None.
find_value_empty_default(meta, meta_key) ==
  IF meta_key \in DOMAIN meta THEN meta[meta_key] ELSE PyStr(<<>>)

find_value(meta, meta_key) ==
  IF meta_key \in DOMAIN meta THEN meta[meta_key] ELSE None


\* A lookup under the state as the hook spelled it, without lower().
ReportingTextCaseSensitive(source, state) ==
  IF "reporting" \notin DOMAIN source
    THEN [exc |-> KeyError(<<"reporting">>), text |-> <<>>]
  ELSE IF state.tag # "str"
    THEN [exc |-> Exc("AttributeError",
                      <<"'NoneType' object has no attribute 'lower'">>),
          text |-> <<>>]
  ELSE IF state.s \notin DOMAIN source["reporting"]
    THEN [exc |-> KeyError(state.s), text |-> <<>>]
  ELSE IF "text" \notin DOMAIN source["reporting"][state.s]
    THEN [exc |-> KeyError(<<"text">>), text |-> <<>>]
  ELSE [exc |-> NoExc, text |-> source["reporting"][state.s]["text"]]

\* A lookup with dict.get() and the default template, which never fails on a
\* missing key.
ReportingTextWithDefault(source, state) ==
  IF state.tag # "str"
    THEN [exc |-> Exc("AttributeError",
                      <<"'NoneType' object has no attribute 'lower'">>),
          text |-> <<>>]
  ELSE IF /\ "reporting" \in DOMAIN source
          /\ lower(state.s) \in DOMAIN source["reporting"]
          /\ "text" \in DOMAIN source["reporting"][lower(state.s)]
    THEN [exc |-> NoExc, text |-> source["reporting"][lower(state.s)]["text"]]
  ELSE [exc |-> NoExc, text |-> DefaultBaseText]

\* self.alert_source_meta['reporting'][res[0].lower()]['text']
ReportingText(source, state) ==
  IF "reporting" \notin DOMAIN source
    THEN [exc |-> KeyError(<<"reporting">>), text |-> <<>>]
  ELSE IF state.tag # "str"
    THEN [exc |-> Exc("AttributeError",
                      <<"'NoneType' object has no attribute 'lower'">>),
          text |-> <<>>]
  ELSE LET key == lower(state.s)
           reporting == source["reporting"]
       IN IF key \notin DOMAIN reporting
            THEN [exc |-> KeyError(key), text |-> <<>>]
          ELSE IF "text" \notin DOMAIN reporting[key]
            THEN [exc |-> KeyError(<<"text">>), text |-> <<>>]
          ELSE [exc |-> NoExc, text |-> reporting[key]["text"]]


\* An except branch that reports repr(e) instead of str(e).
FallbackRepr(e) ==
  [state |-> RESULT_UNKNOWN, args |-> <<<<e.cls, "(">> \o e.str \o <<")">>>>,
   base |-> DefaultBaseText, exc |-> NoExc]

\* The except branch.
Fallback(e) ==
  [state |-> RESULT_UNKNOWN, args |-> <<e.str>>, base |-> DefaultBaseText,
   exc |-> NoExc]

\* The try statement: res and res_base_text after it, or the exception that
\* leaves it.
TryCollect(hook, source) ==
  IF hook.kind = "raise"
    THEN IF IsException(hook.exc.cls)
           THEN Fallback(hook.exc)
         ELSE [state |-> RESULT_UNKNOWN, args |-> <<>>, base |-> DefaultBaseText,
               exc |-> hook.exc]
  ELSE LET t == ReportingText(source, hook.state)
       IN IF t.exc # NoExc /\ IsException(t.exc.cls)
            THEN Fallback(t.exc)
          ELSE [state |-> hook.state, args |-> hook.args, base |-> t.text,
                exc |-> t.exc]

NoData ==
  [name |-> None, label |-> None, state |-> None, text |-> <<>>,
   cluster |-> None, service |-> None, component |-> None]

NoPut == [cluster |-> None, data |-> NoData]

\* One call of collect(): the exception it ends with (NoExc when it returns) and
\* the put() it makes on the collector, if it gets that far.
collect(hook, meta, source, clu, coll) ==
  LET t == TryCollect(hook, source)
      f == format(t.base, t.args)
      data == [name |-> find_value(meta, "name"),
               label |-> find_value(meta, "label"),
               state |-> t.state,
               text |-> f.text,
               cluster |-> clu,
               service |-> find_value(meta, "service"),
               component |-> find_value(meta, "componentName")]
  IN IF t.exc # NoExc THEN [exc |-> t.exc, puts |-> 0, put |-> NoPut]
     ELSE IF f.exc # NoExc THEN [exc |-> f.exc, puts |-> 0, put |-> NoPut]
     ELSE IF coll = Unset
       THEN [exc |-> Exc("AttributeError",
                         <<"'BaseAlert' object has no attribute 'collector'">>),
             puts |-> 0, put |-> NoPut]
     ELSE [exc |-> NoExc, puts |-> 1, put |-> [cluster |-> clu, data |-> data]]


\* A clamp that lets zero through.
interval_negative_only(meta) ==
  IF "interval" \notin DOMAIN meta THEN PyInt(1)
  ELSE LET n == meta["interval"]
       IN IF n.i < 0 THEN PyInt(1) ELSE n

\* BaseAlert.interval
interval(meta) ==
  IF "interval" \notin DOMAIN meta THEN PyInt(1)
  ELSE LET n == meta["interval"]
       IN IF n.i < 1 THEN PyInt(1) ELSE n

----------------------------------------------------------------------------
\* The instance after __init__, and the calls on it.

Call(op, hook, arg, exc, ret, puts) ==
  [op |-> op, hook |-> hook, arg |-> arg, exc |-> exc, ret |-> ret, puts |-> puts]

Constructed(inst, ov) ==
  /\ alert_meta = inst.meta
  /\ alert_source_meta = inst.source
  /\ overridden = ov
  /\ cluster = PyStr(<<>>)
  /\ hostname = PyStr(<<>>)
  /\ lookup_keys = <<>>
  /\ collector = Unset
  /\ config_value_dict = NoAttr
  /\ sink_puts = 0
  /\ sink_last = NoPut
  /\ last = Call("__init__", NoHook, <<>>, NoExc, None, 0)

Init == \E inst \in Instances, ov \in BOOLEAN : Constructed(inst, ov)

ConfigTables ==
  {EmptyDict,
   (<<"a">> :> PyStr(<<"8020">>)) @@ (<<"c">> :> PyStr(<<"c">>))}

Clusters ==
  {[cluster |-> PyStr(<<"c1">>), host |-> PyStr(<<"h1">>)],
   [cluster |-> PyStr(<<"c2">>), host |-> PyStr(<<"h2">>)]}

SetHelpers ==
  \E value_dict \in ConfigTables :
    /\ collector' = "sink"
    /\ config_value_dict' = Attr(value_dict)
    /\ last' = Call("set_helpers", NoHook, <<>>, NoExc, None, 0)
    /\ UNCHANGED <<alert_meta, alert_source_meta, overridden, cluster, hostname,
                   lookup_keys, sink_puts, sink_last>>

SetCluster ==
  \E c \in Clusters :
    /\ cluster' = c.cluster
    /\ hostname' = c.host
    /\ last' = Call("set_cluster", NoHook, c.cluster.s, NoExc, None, 0)
    /\ UNCHANGED <<alert_meta, alert_source_meta, overridden, lookup_keys,
                   collector, config_value_dict, sink_puts, sink_last>>

Collect ==
  /\ sink_puts < MaxPuts
  /\ \E hook \in (IF overridden THEN HookOutcomes ELSE {BaseCollect}) :
       LET r == collect(hook, alert_meta, alert_source_meta, cluster, collector)
       IN /\ sink_puts' = sink_puts + r.puts
          /\ sink_last' = IF r.puts = 1 THEN r.put ELSE sink_last
          /\ last' = Call("collect", hook, <<>>, r.exc, None, r.puts)
  /\ UNCHANGED <<alert_meta, alert_source_meta, overridden, cluster, hostname,
                 lookup_keys, collector, config_value_dict>>

Interval ==
  /\ last' = Call("interval", NoHook, <<>>, NoExc, interval(alert_meta), 0)
  /\ UNCHANGED <<alert_meta, alert_source_meta, overridden, cluster, hostname,
                 lookup_keys, collector, config_value_dict, sink_puts, sink_last>>

----------------------------------------------------------------------------
\* Parameterized keys.

IsSpace(c) == c \in {" ", "\t", "\n"}

Min(S) == CHOOSE x \in S : \A y \in S : x <= y
Max(S) == CHOOSE x \in S : \A y \in S : y <= x

\* The pattern {{([\S]+)}} tried at position i of key: the positions the group
\* can end at.  The group is one or more non-whitespace characters (braces
\* included) and }} follows it.
GroupEnds(key, i) ==
  {e \in (i + 2)..(Len(key) - 2) :
     /\ key[i] = "{" /\ key[i + 1] = "{"
     /\ \A k \in (i + 2)..e : ~IsSpace(key[k])
     /\ key[e + 1] = "}" /\ key[e + 2] = "}"}

\* re.findall: the groups of the non-overlapping matches from position pos on,
\* leftmost first; + is greedy, so each group ends as late as it can.
RECURSIVE re_findall(_, _)
re_findall(key, pos) ==
  LET starts == {i \in pos..Len(key) : GroupEnds(key, i) # {}}
  IN IF starts = {} THEN <<>>
     ELSE LET i == Min(starts)
              e == Max(GroupEnds(key, i))
          IN <<SubSeq(key, i + 2, e)>> \o re_findall(key, e + 3)


\* A version that tracks every key, parameterized or not.
find_lookup_property_tracks_all(lk, key) ==
  LET keys == re_findall(key, 1)
  IN IF Len(keys) > 0
       THEN [lookup_keys |-> Append(lk, keys[1]), ret |-> PyStr(keys[1])]
     ELSE [lookup_keys |-> Append(lk, key), ret |-> PyStr(key)]

\* BaseAlert._find_lookup_property: the list afterwards and the value returned.
find_lookup_property(lk, key) ==
  LET keys == re_findall(key, 1)
  IN IF Len(keys) > 0
       THEN [lookup_keys |-> Append(lk, keys[1]), ret |-> PyStr(keys[1])]
     ELSE [lookup_keys |-> lk, ret |-> PyStr(key)]

InList(x, lst) == \E k \in 1..Len(lst) : lst[k] = x


\* A version that indexes the table without testing the key first.
lookup_property_value_indexed(lk, table, key) ==
  IF ~InList(key, lk) THEN [exc |-> NoExc, ret |-> PyStr(key)]
  ELSE IF ~table.set
    THEN [exc |-> Exc("AttributeError",
                      <<"'BaseAlert' object has no attribute 'config_value_dict'">>),
          ret |-> None]
  ELSE IF key \in DOMAIN table.value
    THEN [exc |-> NoExc, ret |-> table.value[key]]
  ELSE [exc |-> KeyError(key), ret |-> None]

\* BaseAlert._lookup_property_value
lookup_property_value(lk, table, key) ==
  IF ~InList(key, lk) THEN [exc |-> NoExc, ret |-> PyStr(key)]
  ELSE IF ~table.set
    THEN [exc |-> Exc("AttributeError",
                      <<"'BaseAlert' object has no attribute 'config_value_dict'">>),
          ret |-> None]
  ELSE IF key \in DOMAIN table.value
    THEN [exc |-> NoExc, ret |-> table.value[key]]
  ELSE [exc |-> NoExc, ret |-> None]

RawKeys ==
  {<<"a">>,
   <<"{", "{", "a", "}", "}">>,
   <<"x", "=", "{", "{", "a", "}", "}">>,
   <<"{", "{", "a", "}", "}", " ", "{", "{", "b", "}", "}">>,
   <<"{", "{", "a", "}", "}", "{", "{", "b", "}", "}">>,
   <<"{", "{", " ", "a", "}", "}">>,
   <<"{", "{", "}", "}">>}

LookupArgs ==
  {<<"a">>, <<"c">>, <<"{", "{", "a", "}", "}">>,
   <<"a", "}", "}", "{", "{", "b">>}

FindLookupProperty ==
  \E key \in RawKeys :
    LET r == find_lookup_property(lookup_keys, key)
    IN /\ Len(r.lookup_keys) <= MaxLookupKeys
       /\ lookup_keys' = r.lookup_keys
       /\ last' = Call("_find_lookup_property", NoHook, key, NoExc, r.ret, 0)
       /\ UNCHANGED <<alert_meta, alert_source_meta, overridden, cluster, hostname,
                      collector, config_value_dict, sink_puts, sink_last>>

LookupPropertyValue ==
  \E key \in LookupArgs :
    LET r == lookup_property_value(lookup_keys, config_value_dict, key)
    IN /\ last' = Call("_lookup_property_value", NoHook, key, r.exc, r.ret, 0)
       /\ UNCHANGED <<alert_meta, alert_source_meta, overridden, cluster, hostname,
                      lookup_keys, collector, config_value_dict, sink_puts,
                      sink_last>>

GetLookupKeys ==
  /\ last' = Call("get_lookup_keys", NoHook, <<>>, NoExc, PyList(lookup_keys), 0)
  /\ UNCHANGED <<alert_meta, alert_source_meta, overridden, cluster, hostname,
                 lookup_keys, collector, config_value_dict, sink_puts, sink_last>>

----------------------------------------------------------------------------
\* The specifications.  SpecCollect: every alert definition, and the calls
\* that run and report a check.  SpecLookup: one alert definition, and every
\* call, those on parameterized keys included.

NextCollect == SetHelpers \/ SetCluster \/ Collect \/ Interval

SpecCollect == Init /\ [][NextCollect]_vars

InitLookup ==
  \E ov \in BOOLEAN :
    Constructed([meta |-> DiskMeta(MaxInterval), source |-> DiskSource], ov)

NextLookup ==
  \/ SetHelpers
  \/ SetCluster
  \/ Collect
  \/ Interval
  \/ FindLookupProperty
  \/ LookupPropertyValue
  \/ GetLookupKeys

SpecLookup == InitLookup /\ [][NextLookup]_vars

----------------------------------------------------------------------------
\* The properties.

\* set_helpers has given the instance its result sink and its value table.
HelpersSet == collector # Unset /\ config_value_dict.set

\* The newest record the sink received.
Record == sink_last.data

\* The hook behaviours a check can show as failures: errors, that is, classes
\* derived from Exception.
HookRaisedError ==
  /\ last.hook.kind = "raise"
  /\ last.hook.exc.cls \notin {"KeyboardInterrupt", "SystemExit"}

\* C1: with the helpers set, collect() never raises and puts exactly one record,
\* whether the hook raises an error, returns a state that is none of the four,
\* or returns fewer arguments than the template has fields.
C1_CollectNeverRaises ==
  (last.op = "collect" /\ HelpersSet
     /\ (HookRaisedError \/ last.hook.kind = "return"))
  => (last.exc = NoExc /\ last.puts = 1)

\* C2: when the hook of a concrete check raises an error with message m, collect()
\* puts exactly one record, of state UNKNOWN and text "Unknown " followed by m,
\* whatever the reporting templates are.
C2_HookErrorIsUnknown ==
  (last.op = "collect" /\ HelpersSet /\ overridden /\ HookRaisedError)
  => /\ last.exc = NoExc
     /\ last.puts = 1
     /\ Record.state = RESULT_UNKNOWN
     /\ Record.text = <<"Unknown ">> \o last.hook.exc.str

C2_Witness ==
  /\ last.op = "collect"
  /\ overridden
  /\ last.hook = Raises(Exc("Exception", <<"connection refused">>))
  /\ "reporting" \in DOMAIN alert_source_meta
  /\ <<"unknown">> \in DOMAIN alert_source_meta["reporting"]
  /\ last.puts = 1
  /\ Record.text = <<"Unknown ", "connection refused">>

\* The pieces of a template with each field replaced by the argument of its index.
RECURSIVE Joined(_)
Joined(parts) ==
  IF parts = <<>> THEN <<>> ELSE Head(parts) \o Joined(Tail(parts))

Substituted(template, args) ==
  Joined([k \in 1..Len(template) |->
            IF template[k].field >= 0 THEN args[template[k].field + 1]
            ELSE <<template[k].lit>>])

HasEntry(source, key) ==
  /\ "reporting" \in DOMAIN source
  /\ key \in DOMAIN source["reporting"]
  /\ "text" \in DOMAIN source["reporting"][key]

\* C3: when the hook returns (state, args) and reporting has an entry under the
\* lowercase form of state, the record put has exactly the returned state, and
\* as text that entry's template with args substituted by position; the letter
\* case the hook used does not matter.  (Stated for arguments that cover the
\* template's fields: with fewer, no record is put.)
C3_TemplateOfReturnedState ==
  (/\ last.op = "collect" /\ HelpersSet
   /\ last.hook.kind = "return"
   /\ last.hook.state.tag = "str"
   /\ HasEntry(alert_source_meta, lower(last.hook.state.s))
   /\ \A k \in 1..Len(alert_source_meta["reporting"][lower(last.hook.state.s)]["text"]) :
        alert_source_meta["reporting"][lower(last.hook.state.s)]["text"][k].field
          < Len(last.hook.args))
  => /\ last.exc = NoExc
     /\ last.puts = 1
     /\ Record.state = last.hook.state
     /\ Record.text =
          Substituted(alert_source_meta["reporting"][lower(last.hook.state.s)]["text"],
                      last.hook.args)

C3_Witness ==
  /\ last.op = "collect"
  /\ last.hook = Returns(PyStr(<<"Critical">>), <<<<"92">>>>)
  /\ alert_source_meta = DiskSource
  /\ last.puts = 1
  /\ Record.state = PyStr(<<"Critical">>)
  /\ Record.text = <<"Disk CRITICAL: ", "92", "% used">>

MetaOrNone(key) == IF key \in DOMAIN alert_meta THEN alert_meta[key] ELSE None

\* C4: every record collect() puts has name, label, service and component equal
\* to the metadata under name, label, service and componentName, or None where
\* the key is missing; its cluster is the cluster of the latest set_cluster call
\* (the empty string before any), and it is put under that same cluster.
C4_RecordFieldsAndCluster ==
  /\ cluster = PyStr(<<>>)
  /\ [][/\ (last'.op = "set_cluster" => cluster' = PyStr(last'.arg))
        /\ (last'.op # "set_cluster" => cluster' = cluster)
        /\ (last'.op = "collect" /\ last'.puts = 1
              => /\ sink_puts' = sink_puts + 1
                 /\ sink_last'.cluster = cluster
                 /\ sink_last'.data.cluster = cluster
                 /\ sink_last'.data.name = MetaOrNone("name")
                 /\ sink_last'.data.label = MetaOrNone("label")
                 /\ sink_last'.data.service = MetaOrNone("service")
                 /\ sink_last'.data.component = MetaOrNone("componentName"))
        /\ (last'.op = "collect" /\ HelpersSet /\ last'.puts = 0
              => last'.exc.cls \in {"IndexError", "KeyboardInterrupt"})]_vars

C4_Witness ==
  /\ last.op = "collect"
  /\ last.puts = 1
  /\ sink_puts = 2
  /\ "label" \notin DOMAIN alert_meta
  /\ "name" \in DOMAIN alert_meta
  /\ Record.label = None
  /\ Record.name = alert_meta["name"]
  /\ Record.cluster = PyStr(<<"c2">>)
  /\ sink_last.cluster = PyStr(<<"c2">>)

\* C5, as claimed: collect() on a check that does not override the hook lets the
\* NotImplementedError surface and puts no UNKNOWN record.
C5_NotImplementedSurfaces ==
  (last.op = "collect" /\ HelpersSet /\ ~overridden)
  => (last.exc.cls = "NotImplementedError" /\ last.puts = 0)

\* C5, as the code has it: collect() on a check that does not override the hook
\* absorbs the NotImplementedError like any other error of the hook; it returns
\* normally and puts one record of state UNKNOWN and text "Unknown " followed by
\* the error's (empty) message.
C5_NotImplementedIsAbsorbed ==
  (last.op = "collect" /\ HelpersSet /\ ~overridden)
  => /\ last.hook = BaseCollect
     /\ last.exc = NoExc
     /\ last.puts = 1
     /\ Record.state = RESULT_UNKNOWN
     /\ Record.text = <<"Unknown ">>

C5_Witness ==
  /\ last.op = "collect"
  /\ ~overridden
  /\ last.hook.exc.cls = "NotImplementedError"
  /\ last.puts = 1
  /\ Record.state = RESULT_UNKNOWN

\* C6: _lookup_keys never holds the same inner path twice, however often
\* _find_lookup_property is called with the same raw key.
C6_NoDuplicateLookupKeys ==
  \A m, n \in 1..Len(lookup_keys) : m # n => lookup_keys[m] # lookup_keys[n]

Registered(key) == key \in {lookup_keys[k] : k \in 1..Len(lookup_keys)}

\* C7: with the value table set, _lookup_property_value(key) returns key itself
\* when key is not in _lookup_keys; when it is, the table's value for key, or None
\* without raising when the table has none.
C7_LookupValue ==
  (last.op = "_lookup_property_value" /\ HelpersSet)
  => /\ last.exc = NoExc
     /\ (~Registered(last.arg) => last.ret = PyStr(last.arg))
     /\ (Registered(last.arg) /\ last.arg \in DOMAIN config_value_dict.value
           => last.ret = config_value_dict.value[last.arg])
     /\ (Registered(last.arg) /\ last.arg \notin DOMAIN config_value_dict.value
           => last.ret = None)

C7_Witness ==
  /\ last.op = "_lookup_property_value"
  /\ HelpersSet
  /\ Registered(last.arg)
  /\ Len(lookup_keys) = 2
  /\ last.arg \notin DOMAIN config_value_dict.value
  /\ config_value_dict.value # EmptyDict
  /\ last.ret = None

\* C8: interval() returns max(1, i) when the metadata holds the integer i under
\* interval, zero and negative i included, and 1 when it holds no interval; the
\* value returned is never below 1.
C8_IntervalClamped ==
  last.op = "interval"
  => /\ last.exc = NoExc
     /\ last.ret.tag = "int"
     /\ last.ret.i >= 1
     /\ ("interval" \notin DOMAIN alert_meta => last.ret.i = 1)
     /\ ("interval" \in DOMAIN alert_meta
           => /\ last.ret.i >= alert_meta["interval"].i
              /\ last.ret.i \in {1, alert_meta["interval"].i})

C8_Witness ==
  /\ last.op = "interval"
  /\ "interval" \in DOMAIN alert_meta
  /\ alert_meta["interval"].i = 0
  /\ last.ret = PyInt(1)

\* str() of the KeyError the lookup of the reporting text ends with.
MissingKey(source, key) ==
  IF "reporting" \notin DOMAIN source THEN <<"'", "reporting", "'">>
  ELSE IF key \notin DOMAIN source["reporting"] THEN <<"'">> \o key \o <<"'">>
  ELSE <<"'", "text", "'">>

\* C9: when the hook returns a state that reporting has no entry for (or
\* reporting, or the entry's text, is missing), collect() does not raise and puts
\* one record whose state is UNKNOWN, not the returned state, and whose text is
\* "Unknown " followed by the lookup error as a string; the hook's arguments are
\* dropped.
C9_MissingTemplateIsUnknown ==
  (/\ last.op = "collect" /\ HelpersSet
   /\ last.hook.kind = "return"
   /\ last.hook.state.tag = "str"
   /\ ~HasEntry(alert_source_meta, lower(last.hook.state.s)))
  => /\ last.exc = NoExc
     /\ last.puts = 1
     /\ Record.state = RESULT_UNKNOWN
     /\ Record.text =
          <<"Unknown ">> \o MissingKey(alert_source_meta, lower(last.hook.state.s))

C9_Witness ==
  /\ last.op = "collect"
  /\ last.hook = Returns(PyStr(<<"BOGUS">>), <<<<"92">>, <<"GB">>>>)
  /\ alert_source_meta = DiskSource
  /\ last.puts = 1
  /\ Record.state = RESULT_UNKNOWN
  /\ Record.text = <<"Unknown ", "'", "bogus", "'">>

\* A key holds a token: {{, one or more characters that are not whitespace, }}.
HasToken(key) ==
  \E b, e \in 1..Len(key) :
    /\ b + 2 <= e /\ e + 2 <= Len(key)
    /\ key[b] = "{" /\ key[b + 1] = "{"
    /\ key[e + 1] = "}" /\ key[e + 2] = "}"
    /\ \A k \in (b + 2)..e : key[k] \notin {" ", "\t", "\n"}

\* C10: _lookup_keys is empty after construction and changes only when
\* _find_lookup_property is given a key that holds a token, and then by one entry
\* appended; for a key without a token that call returns the key and leaves the
\* list alone, as do collect, _lookup_property_value, interval, set_cluster and
\* set_helpers.  No entry is ever removed or moved.
C10_LookupKeysFrame ==
  /\ lookup_keys = <<>>
  /\ [][IF last'.op = "_find_lookup_property" /\ HasToken(last'.arg)
          THEN /\ Len(lookup_keys') = Len(lookup_keys) + 1
               /\ SubSeq(lookup_keys', 1, Len(lookup_keys)) = lookup_keys
               /\ PyStr(lookup_keys'[Len(lookup_keys')]) = last'.ret
        ELSE /\ lookup_keys' = lookup_keys
             /\ (last'.op = "_find_lookup_property" => last'.ret = PyStr(last'.arg))]_vars

C10_Witness ==
  /\ Len(lookup_keys) = 2
  /\ lookup_keys[1] # lookup_keys[2]
  /\ sink_puts = 2
  /\ last.op = "collect"
  /\ last.puts = 1

====
